---- MODULE Spec2Model ----
(***************************************************************************)
(* Model of manager/director/apps/sites/forms.py: the Django forms that    *)
(* validate site names, custom domains, Docker image package lists and     *)
(* resource limits.                                                        *)
(*                                                                         *)
(* A text is a sequence of one-character strings; the token "NUL" stands   *)
(* for the character U+0000.  A form is bound to submitted data in Init    *)
(* (the state after construction) and one action per form class models     *)
(* is_valid(), i.e. full_clean(): every field's clean() (to_python,        *)
(* validate, run_validators) followed by the form's clean().               *)
(*                                                                         *)
(* Fields that have no validator and are read by no clean() method         *)
(* (write_run_sh_file, notes, the ModelForm classes) are not represented.  *)
(***************************************************************************)
EXTENDS Integers, Sequences, FiniteSets

VARIABLES form, kwargs, user_is_superuser, data, state, exception,
          cleaned_data, errors

vars == <<form, kwargs, user_is_superuser, data, state, exception,
          cleaned_data, errors>>

(***************************************************************************)
(* Bounds of the model.                                                    *)
(***************************************************************************)
\* Longest site name enumerated character by character.
MaxNameLen == 4
\* Most chunks a submitted domain is concatenated from.
MaxDomainChunks == 4
\* Longest packages text enumerated character by character.
MaxPkgLen == 5
\* Most chunks a submitted cpus text is concatenated from.
MaxCpusChunks == 3
\* Most chunks a submitted mem_limit text is concatenated from.
MaxMemChunks == 4

(***************************************************************************)
(* Character classes and text helpers (Python str and re semantics).       *)
(***************************************************************************)
Lower == {"a", "b", "c", "d", "e", "f", "g", "h", "i", "j", "k", "l", "m",
          "n", "o", "p", "q", "r", "s", "t", "u", "v", "w", "x", "y", "z"}

Upper == {"A", "B", "C", "D", "E", "F", "G", "H", "I", "J", "K", "L", "M",
          "N", "O", "P", "Q", "R", "S", "T", "U", "V", "W", "X", "Y", "Z"}

Digits == {"0", "1", "2", "3", "4", "5", "6", "7", "8", "9"}

\* str.isspace(): the characters str.strip(), str.split() and \s remove.
Whitespace == {" ", "\t", "\n", "\r", "\f"}

\* All texts of at most n elements over the alphabet A.
Texts(A, n) == UNION {[1..k -> A] : k \in 0..n}

RECURSIVE Flatten(_)
\* The concatenation of a sequence of chunks.
Flatten(cs) == IF cs = <<>> THEN <<>> ELSE Head(cs) \o Flatten(Tail(cs))

\* n copies of the character c.
Repeat(c, n) == [i \in 1..n |-> c]

RECURSIVE LStrip(_)
LStrip(s) ==
    IF s # <<>> /\ Head(s) \in Whitespace THEN LStrip(Tail(s)) ELSE s

RECURSIVE RStrip(_)
RStrip(s) ==
    IF s # <<>> /\ s[Len(s)] \in Whitespace
    THEN RStrip(SubSeq(s, 1, Len(s) - 1))
    ELSE s

\* str.strip(): CharField.to_python applies it (strip=True is the default).
Strip(s) == RStrip(LStrip(s))

\* str.endswith(suffix)
EndsWith(s, suffix) ==
    /\ Len(s) >= Len(suffix)
    /\ SubSeq(s, Len(s) - Len(suffix) + 1, Len(s)) = suffix

\* The literal `lit` stands in s at position i.
LiteralAt(s, i, lit) ==
    /\ i + Len(lit) - 1 <= Len(s)
    /\ SubSeq(s, i, i + Len(lit) - 1) = lit

\* `$` of a pattern compiled without re.MULTILINE, tried at position i:
\* the end of the text, or just before a newline that ends the text.
AtDollar(s, i) ==
    \/ i = Len(s) + 1
    \/ i = Len(s) /\ s[i] = "\n"

\* Greedy `[class]*` from position i: the position after the run, which is
\* the first position from i on that holds no character of the class.
RunEnd(s, i, class) ==
    CHOOSE j \in i..(Len(s) + 1) :
        /\ j = Len(s) + 1 \/ s[j] \notin class
        /\ \A k \in i..(j - 1) : s[k] \in class

\* Field.empty_values, for a text.
IsEmptyValue(v) == v = <<>>

\* ProhibitNullCharactersValidator, added to every CharField.
HasNullCharacter(v) == \E i \in 1..Len(v) : v[i] = "NUL"

(***************************************************************************)
(* SiteNamesForm                                                           *)
(***************************************************************************)
NameMinLength == 2

NameMaxLength == 32

MsgMinLength == "min_length"
MsgMaxLength == "max_length"
MsgNullCharacters == "null_characters_not_allowed"
MsgRequired == "required"
MsgSiteName == "Site names must consist of lowercase letters, numbers, and dashes. Dashes must go between two non-dash characters."

RECURSIVE NameRunsMatch(_, _)
\* `[a-z0-9]+(-[a-z0-9]+)*$` tried at position i.
NameRunsMatch(s, i) ==
    LET j == RunEnd(s, i, Lower \cup Digits)
    IN  /\ j > i
        /\ \/ AtDollar(s, j)
           \/ /\ j <= Len(s)
              /\ s[j] = "-"
              /\ NameRunsMatch(s, j + 1)

\* regex.search(value) for r"^[a-z0-9]+(-[a-z0-9]+)*$"
NameRegexMatches(s) == NameRunsMatch(s, 1)

\* A variant of the validators whose upper length is exclusive.
NameValidatorErrorsExclusiveMax(v) ==
    (IF Len(v) < NameMinLength THEN {MsgMinLength} ELSE {})
    \cup (IF ~NameRegexMatches(v) THEN {MsgSiteName} ELSE {})
    \cup (IF Len(v) >= NameMaxLength THEN {MsgMaxLength} ELSE {})
    \cup (IF HasNullCharacter(v) THEN {MsgNullCharacters} ELSE {})

\* run_validators of SiteNamesForm.name: every validator runs and the
\* errors of all of them are collected.
NameValidatorErrors(v) ==
    (IF Len(v) < NameMinLength THEN {MsgMinLength} ELSE {})
    \cup (IF ~NameRegexMatches(v) THEN {MsgSiteName} ELSE {})
    \cup (IF Len(v) > NameMaxLength THEN {MsgMaxLength} ELSE {})
    \cup (IF HasNullCharacter(v) THEN {MsgNullCharacters} ELSE {})

\* Field.clean of SiteNamesForm.name on the submitted text: the errors.
NameFieldErrors(raw) ==
    LET v == Strip(raw)
    IN  IF IsEmptyValue(v) THEN {MsgRequired} ELSE NameValidatorErrors(v)

\* The submitted site names: every short text, and every short text
\* followed by thirty letters, which brings the length to the limit.
NameAlphabet == {"a", "1", "-", "A", " ", "\n"}

NamePad == 30

NameInputs ==
    LET short == Texts(NameAlphabet, MaxNameLen)
    IN  short \cup {s \o Repeat("a", NamePad) : s \in short}

InitSiteNames ==
    /\ form = "SiteNamesForm"
    /\ kwargs = <<>>
    /\ user_is_superuser = FALSE
    /\ \E n \in NameInputs : data = [name |-> n]
    /\ state = "bound"
    /\ exception = ""
    /\ cleaned_data = <<>>
    /\ errors = <<>>

\* SiteNamesForm(...).is_valid()
CleanSiteNames ==
    /\ form = "SiteNamesForm"
    /\ state = "bound"
    /\ LET errs == NameFieldErrors(data.name)
       IN  /\ errors' = [name |-> errs]
           /\ cleaned_data' = IF errs = {} THEN [name |-> Strip(data.name)] ELSE <<>>
           /\ state' = IF errs = {} THEN "valid" ELSE "invalid"
    /\ UNCHANGED <<form, kwargs, user_is_superuser, data, exception>>

(***************************************************************************)
(* DomainForm                                                              *)
(***************************************************************************)
DomainMaxLength == 255

MsgSitesDomain == "You can only have one sites.tjhsst.edu domain, the automatically generated one that matches the name of your site."
MsgAdminOnly == "Only administrators can add tjhsst.edu domains"

SitesDomain == <<"s", "i", "t", "e", "s", ".", "t", "j", "h", "s", "s", "t", ".", "e", "d", "u">>

TjhsstSuffix == <<"t", "j", "h", "s", "s", "t", ".", "e", "d", "u">>

DomainCharset == Digits \cup Lower \cup Upper \cup {"_", "-", " ", "."}

\* A variant of the lookahead without the `$` anchor: the text may go on.
DomainLookaheadUnanchored(s) ==
    \E k \in 0..Len(s) :
        /\ k = 0 \/ s[k] = "."
        /\ LiteralAt(s, k + 1, SitesDomain)

\* `(.*\.)?sites\.tjhsst\.edu$` tried at position 1: k is the length of
\* the text `(.*\.)?` takes, and `.` takes no newline.
DomainLookahead(s) ==
    \E k \in 0..Len(s) :
        /\ \/ k = 0
           \/ /\ s[k] = "."
              /\ \A i \in 1..(k - 1) : s[i] # "\n"
        /\ LiteralAt(s, k + 1, SitesDomain)
        /\ AtDollar(s, k + 1 + Len(SitesDomain))

\* regex.search(value) for
\* r"^(?!(.*\.)?sites\.tjhsst\.edu$)[0-9a-zA-Z_\- .]+$"
DomainRegexMatches(s) ==
    /\ ~DomainLookahead(s)
    /\ LET j == RunEnd(s, 1, DomainCharset)
       IN  j > 1 /\ AtDollar(s, j)

\* run_validators of DomainForm.domain.
DomainValidatorErrors(v) ==
    (IF ~DomainRegexMatches(v) THEN {MsgSitesDomain} ELSE {})
    \cup (IF Len(v) > DomainMaxLength THEN {MsgMaxLength} ELSE {})
    \cup (IF HasNullCharacter(v) THEN {MsgNullCharacters} ELSE {})

\* Field.clean of DomainForm.domain (required=False: an empty value skips
\* the validators).
DomainFieldErrors(raw) ==
    LET v == Strip(raw)
    IN  IF IsEmptyValue(v) THEN {} ELSE DomainValidatorErrors(v)

\* A variant of the constructor whose flag defaults to True.
DomainFormInitDefaultTrue(kw) ==
    IF "user_is_superuser" \in DOMAIN kw THEN kw.user_is_superuser ELSE TRUE

\* DomainForm.__init__: self.user_is_superuser, from the keyword argument
\* or its default.
DomainFormInit(kw) ==
    IF "user_is_superuser" \in DOMAIN kw THEN kw.user_is_superuser ELSE FALSE

\* A variant of clean() that adds the error whoever the user is.
DomainCleanIgnoresFlag(su, cd) ==
    IF "domain" \in DOMAIN cd /\ EndsWith(cd.domain, TjhsstSuffix)
    THEN {MsgAdminOnly}
    ELSE {}

\* A variant of clean() that only refuses the bare domain tjhsst.edu.
DomainCleanExactOnly(su, cd) ==
    IF ~su
    THEN IF "domain" \in DOMAIN cd /\ cd.domain = TjhsstSuffix
         THEN {MsgAdminOnly}
         ELSE {}
    ELSE {}

\* DomainForm.clean: the errors it adds to the domain field.
DomainClean(su, cd) ==
    IF ~su
    THEN IF "domain" \in DOMAIN cd /\ EndsWith(cd.domain, TjhsstSuffix)
         THEN {MsgAdminOnly}
         ELSE {}
    ELSE {}

\* The submitted domains: concatenations of a few chunks, and the same
\* around a long run of letters, which brings the length to the limit.
DomainChunks ==
    {SitesDomain, TjhsstSuffix, <<".">>, <<"x">>, <<" ">>, <<"!">>}

DomainPad == 245

DomainInputs ==
    {Flatten(cs) : cs \in Texts(DomainChunks, MaxDomainChunks)}
    \cup {Flatten(<<a, Repeat("x", DomainPad), b, c>>) :
             a \in {<<>>, <<" ">>}, b, c \in DomainChunks \cup {<<>>}}

\* The keyword arguments a DomainForm is built with: DomainFormSet passes
\* none.
DomainKwargs ==
    {<<>>} \cup {[user_is_superuser |-> b] : b \in BOOLEAN}

InitDomain ==
    /\ form = "DomainForm"
    /\ kwargs \in DomainKwargs
    /\ user_is_superuser = DomainFormInit(kwargs)
    /\ \E d \in DomainInputs : data = [domain |-> d]
    /\ state = "bound"
    /\ exception = ""
    /\ cleaned_data = <<>>
    /\ errors = <<>>

\* DomainForm(...).is_valid(): the field, then clean(); add_error takes
\* the field out of cleaned_data.
CleanDomain ==
    /\ form = "DomainForm"
    /\ state = "bound"
    /\ LET ferrs == DomainFieldErrors(data.domain)
           cd == IF ferrs = {} THEN [domain |-> Strip(data.domain)] ELSE <<>>
           cerrs == DomainClean(user_is_superuser, cd)
           errs == ferrs \cup cerrs
       IN  /\ errors' = [domain |-> errs]
           /\ cleaned_data' = IF errs = {} THEN cd ELSE <<>>
           /\ state' = IF errs = {} THEN "valid" ELSE "invalid"
    /\ UNCHANGED <<form, kwargs, user_is_superuser, data, exception>>

(***************************************************************************)
(* ImageSelectForm                                                         *)
(***************************************************************************)
MsgInvalidChoice == "invalid_choice"
MsgPackageTooLong == "One of your package names is too long"

\* DockerImageExtraPackage._meta.get_field("name").max_length
max_package_name_length == 3

\* The names DockerImage.objects.filter_user_visible() yields as choices.
ImageChoices == {<<"p">>}

RECURSIVE Split(_)
\* str.split(): the runs of characters that are not whitespace.
Split(s) ==
    LET t == LStrip(s)
        ends == {j \in 1..Len(t) : t[j] \in Whitespace}
        j == IF ends = {}
             THEN Len(t) + 1
             ELSE CHOOSE e \in ends : \A f \in ends : e <= f
    IN  IF t = <<>>
        THEN <<>>
        ELSE <<SubSeq(t, 1, j - 1)>> \o Split(SubSeq(t, j, Len(t)))

\* Field.clean of ImageSelectForm.image (a ChoiceField, required=False).
ImageFieldErrors(raw) ==
    IF IsEmptyValue(raw) \/ raw \in ImageChoices THEN {} ELSE {MsgInvalidChoice}

\* Field.clean of ImageSelectForm.packages (required=False, no validator
\* but the one every CharField has).
PackagesFieldErrors(raw) ==
    LET v == Strip(raw)
    IN  IF IsEmptyValue(v) THEN {}
        ELSE IF HasNullCharacter(v) THEN {MsgNullCharacters} ELSE {}

\* any(len(name) > max_package_name_length for name in package_names)
PackageNamesTooLong(packages) ==
    LET package_names == Split(Strip(packages))
    IN  \E i \in 1..Len(package_names) :
            Len(package_names[i]) > max_package_name_length

\* ImageSelectForm.clean: what it raises ("" when it returns) and the
\* errors it adds to the packages field.  cleaned_data["packages"] is a
\* subscription: it raises KeyError when the key is absent.
ImageSelectClean(cd) ==
    IF "packages" \notin DOMAIN cd
    THEN [raises |-> "KeyError", adds |-> {}]
    ELSE [raises |-> "",
          adds |-> IF PackageNamesTooLong(cd.packages)
                   THEN {MsgPackageTooLong}
                   ELSE {}]

PackagesAlphabet == {"a", " ", "\n", "NUL"}

ImageInputs == {<<>>, <<"p">>, <<"z">>}

InitImageSelect ==
    /\ form = "ImageSelectForm"
    /\ kwargs = <<>>
    /\ user_is_superuser = FALSE
    /\ \E i \in ImageInputs, p \in Texts(PackagesAlphabet, MaxPkgLen) :
           data = [image |-> i, packages |-> p]
    /\ state = "bound"
    /\ exception = ""
    /\ cleaned_data = <<>>
    /\ errors = <<>>

\* Restriction of the mapping f to the keys in S.
Restrict(f, S) == [k \in (DOMAIN f) \cap S |-> f[k]]

\* ImageSelectForm(...).is_valid(): the fields, then clean(); an exception
\* of clean() other than ValidationError leaves full_clean() and is_valid().
CleanImageSelect ==
    /\ form = "ImageSelectForm"
    /\ state = "bound"
    /\ LET ierrs == ImageFieldErrors(data.image)
           perrs == PackagesFieldErrors(data.packages)
           fields == [image |-> data.image, packages |-> Strip(data.packages)]
           cd == Restrict(fields, (IF ierrs = {} THEN {"image"} ELSE {})
                                  \cup (IF perrs = {} THEN {"packages"} ELSE {}))
           res == ImageSelectClean(cd)
           errs == [image |-> ierrs, packages |-> perrs \cup res.adds]
       IN  /\ errors' = errs
           /\ exception' = res.raises
           /\ cleaned_data' =
                  Restrict(cd, {f \in {"image", "packages"} : errs[f] = {}})
           /\ state' = IF res.raises # "" THEN "raised"
                       ELSE IF \A f \in DOMAIN errs : errs[f] = {} THEN "valid"
                       ELSE "invalid"
    /\ UNCHANGED <<form, kwargs, user_is_superuser, data>>

(***************************************************************************)
(* SiteResourceLimitsForm                                                  *)
(***************************************************************************)
CpusMinValue == 0

CpusMaxValue == 3

MemLimitMaxLength == 10

MsgInvalid == "invalid"
MsgMinValue == "min_value"
MsgMaxValue == "max_value"
MsgMemLimit == "Must be either 1) blank for the default limit or 2) a number followed by one of the suffixes KiB, MiB, or GiB (powers of 1024) or KB, MB, GB (powers of 1000)."

DigitValue(c) ==
    CASE c = "0" -> 0 [] c = "1" -> 1 [] c = "2" -> 2 [] c = "3" -> 3
      [] c = "4" -> 4 [] c = "5" -> 5 [] c = "6" -> 6 [] c = "7" -> 7
      [] c = "8" -> 8 [] c = "9" -> 9

RECURSIVE DecimalValue(_)
\* The number a run of decimal digits denotes.
DecimalValue(ds) ==
    IF ds = <<>> THEN 0
    ELSE 10 * DecimalValue(SubSeq(ds, 1, Len(ds) - 1)) + DigitValue(ds[Len(ds)])

RECURSIVE Pow10(_)
Pow10(n) == IF n = 0 THEN 1 ELSE 10 * Pow10(n - 1)

NotANumber == [kind |-> "invalid"]

\* The number sign * (int.frac) as the fraction num / den.
Finite(neg, int, frac) ==
    [kind |-> "finite", neg |-> neg,
     num |-> DecimalValue(int \o frac), den |-> Pow10(Len(frac))]

\* float(value) of Python for a text: surrounding whitespace, a sign, then
\* inf, infinity, nan or a decimal literal.  The submitted cpus texts hold no
\* exponent part and no digit-grouping underscore, so neither is parsed;
\* they are short enough for the binary rounding of float() to keep the
\* order of the value with 0 and 3.
ParseFloat(s) ==
    LET t == Strip(s)
        signed == t # <<>> /\ t[1] \in {"+", "-"}
        neg == signed /\ t[1] = "-"
        r == IF signed THEN Tail(t) ELSE t
        j == RunEnd(r, 1, Digits)
        dotted == j <= Len(r) /\ r[j] = "."
        k == IF dotted THEN RunEnd(r, j + 1, Digits) ELSE j
        int == SubSeq(r, 1, j - 1)
        frac == IF dotted THEN SubSeq(r, j + 1, k - 1) ELSE <<>>
    IN  IF r \in {<<"i", "n", "f">>, <<"i", "n", "f", "i", "n", "i", "t", "y">>}
        THEN [kind |-> "inf", neg |-> neg]
        ELSE IF r = <<"n", "a", "n">> THEN [kind |-> "nan"]
        ELSE IF int = <<>> /\ frac = <<>> THEN NotANumber
        ELSE IF k # Len(r) + 1 THEN NotANumber
        ELSE Finite(neg, int, frac)

\* value < limit and value > limit for a finite value and an integer limit.
LessThan(v, limit) ==
    IF v.neg THEN 0 - v.num < limit * v.den ELSE v.num < limit * v.den

GreaterThan(v, limit) ==
    IF v.neg THEN 0 - v.num > limit * v.den ELSE v.num > limit * v.den

\* A variant of the validators whose maximum is exclusive.
CpusValidatorErrorsExclusiveMax(v) ==
    (IF GreaterThan(v, CpusMaxValue) \/ v.num = CpusMaxValue * v.den
     THEN {MsgMaxValue} ELSE {})
    \cup (IF LessThan(v, CpusMinValue) THEN {MsgMinValue} ELSE {})

\* run_validators of SiteResourceLimitsForm.cpus: MaxValueValidator and
\* MinValueValidator.
CpusValidatorErrors(v) ==
    (IF GreaterThan(v, CpusMaxValue) THEN {MsgMaxValue} ELSE {})
    \cup (IF LessThan(v, CpusMinValue) THEN {MsgMinValue} ELSE {})

\* Field.clean of SiteResourceLimitsForm.cpus: FloatField.to_python
\* (the empty text is None, anything else goes through float()),
\* FloatField.validate (the value must be finite), then the validators.
CpusFieldErrors(raw) ==
    IF IsEmptyValue(raw) THEN {}
    ELSE LET v == ParseFloat(raw)
         IN  IF v.kind # "finite" THEN {MsgInvalid} ELSE CpusValidatorErrors(v)

\* The cleaned value of cpus.
CpusToPython(raw) == IF IsEmptyValue(raw) THEN [kind |-> "None"] ELSE ParseFloat(raw)

\* `[KMG]i?B$` tried at position k.
MemSuffixAt(s, k) ==
    /\ k <= Len(s)
    /\ s[k] \in {"K", "M", "G"}
    /\ \/ LiteralAt(s, k + 1, <<"i", "B">>) /\ AtDollar(s, k + 3)
       \/ LiteralAt(s, k + 1, <<"B">>) /\ AtDollar(s, k + 2)

\* A variant of the pattern that takes any letters after the number.
MemRegexAnySuffix(s) ==
    \/ AtDollar(s, 1)
    \/ LET j == RunEnd(s, 1, Digits)
       IN  /\ j > 1
           /\ AtDollar(s, RunEnd(s, j, Lower \cup Upper))

\* regex.search(value) for r"^(\d+(\s*[KMG]i?B)?)?$"
MemRegexMatches(s) ==
    \/ AtDollar(s, 1)
    \/ LET j == RunEnd(s, 1, Digits)
       IN  /\ j > 1
           /\ \/ AtDollar(s, j)
              \/ MemSuffixAt(s, RunEnd(s, j, Whitespace))

\* run_validators of SiteResourceLimitsForm.mem_limit.
MemLimitValidatorErrors(v) ==
    (IF ~MemRegexMatches(v) THEN {MsgMemLimit} ELSE {})
    \cup (IF Len(v) > MemLimitMaxLength THEN {MsgMaxLength} ELSE {})
    \cup (IF HasNullCharacter(v) THEN {MsgNullCharacters} ELSE {})

\* Field.clean of SiteResourceLimitsForm.mem_limit (required=False).
MemLimitFieldErrors(raw) ==
    LET v == Strip(raw)
    IN  IF IsEmptyValue(v) THEN {} ELSE MemLimitValidatorErrors(v)

CpusChunks ==
    {<<"0">>, <<"1">>, <<"3">>, <<"4">>, <<".">>, <<"-">>, <<" ">>,
     <<"n", "a", "n">>, <<"i", "n", "f">>}

MemChunks ==
    {<<"1">>, <<"1", "2", "3", "4", "5", "6", "7", "8">>, <<"K">>, <<"i">>,
     <<"B">>, <<" ">>, <<"b">>}

\* The submitted limits: every cpus text beside a fixed mem_limit, and
\* every mem_limit text beside a fixed cpus.
LimitsInputs ==
    {[cpus |-> Flatten(c), mem_limit |-> m] :
        c \in Texts(CpusChunks, MaxCpusChunks), m \in {<<>>, <<"b">>}}
    \cup {[cpus |-> c, mem_limit |-> Flatten(m)] :
             c \in {<<>>, <<"4">>}, m \in Texts(MemChunks, MaxMemChunks)}

InitResourceLimits ==
    /\ form = "SiteResourceLimitsForm"
    /\ kwargs = <<>>
    /\ user_is_superuser = FALSE
    /\ data \in LimitsInputs
    /\ state = "bound"
    /\ exception = ""
    /\ cleaned_data = <<>>
    /\ errors = <<>>

\* SiteResourceLimitsForm(...).is_valid()
CleanResourceLimits ==
    /\ form = "SiteResourceLimitsForm"
    /\ state = "bound"
    /\ LET errs == [cpus |-> CpusFieldErrors(data.cpus),
                    mem_limit |-> MemLimitFieldErrors(data.mem_limit)]
           fields == [cpus |-> CpusToPython(data.cpus),
                      mem_limit |-> Strip(data.mem_limit)]
       IN  /\ errors' = errs
           /\ cleaned_data' =
                  Restrict(fields, {f \in {"cpus", "mem_limit"} : errs[f] = {}})
           /\ state' = IF \A f \in DOMAIN errs : errs[f] = {} THEN "valid"
                       ELSE "invalid"
    /\ UNCHANGED <<form, kwargs, user_is_superuser, data, exception>>

Init == InitSiteNames \/ InitDomain \/ InitImageSelect \/ InitResourceLimits

Next ==
    \/ CleanSiteNames
    \/ CleanDomain
    \/ CleanImageSelect
    \/ CleanResourceLimits

Spec == Init /\ [][Next]_vars

(***************************************************************************)
(* Properties                                                              *)
(***************************************************************************)
\* is_valid() has run on the form.
Cleaned == state # "bound"

\* The text `part` stands somewhere in s.
Contains(s, part) == \E i \in 1..(Len(s) + 1) : LiteralAt(s, i, part)

\* The form was built without the user_is_superuser keyword argument.
FlagOmitted == "user_is_superuser" \notin DOMAIN kwargs

\* The form was built with user_is_superuser=b.
FlagGiven(b) ==
    /\ "user_is_superuser" \in DOMAIN kwargs
    /\ kwargs.user_is_superuser = b

\* C1: a DomainForm built with user_is_superuser=False rejects every
\* submitted domain that ends with "tjhsst.edu" (the form is invalid and the
\* domain field carries an error), and no domain it accepts ends with it.
C1_NonPrivilegedRejectsTjhsst ==
    (form = "DomainForm" /\ FlagGiven(FALSE) /\ Cleaned) =>
        /\ EndsWith(data.domain, TjhsstSuffix) =>
               (state = "invalid" /\ errors.domain # {})
        /\ state = "valid" => ~EndsWith(cleaned_data.domain, TjhsstSuffix)

\* C1: a non-privileged form whose domain passed the field's validators was
\* refused by clean() for its tjhsst.edu suffix.
C1_Witness ==
    /\ form = "DomainForm" /\ FlagGiven(FALSE) /\ state = "invalid"
    /\ EndsWith(data.domain, TjhsstSuffix)
    /\ errors.domain = {MsgAdminOnly}

\* C2: a DomainForm built with user_is_superuser=True never carries the
\* "Only administrators" error, and a domain ending in "tjhsst.edu" that
\* raised no error of the field's own validators is accepted.
C2_PrivilegedMayAddTjhsst ==
    (form = "DomainForm" /\ FlagGiven(TRUE) /\ Cleaned) =>
        /\ MsgAdminOnly \notin errors.domain
        /\ (/\ EndsWith(data.domain, TjhsstSuffix)
            /\ errors.domain \cap {MsgSitesDomain, MsgMaxLength, MsgNullCharacters} = {})
           => state = "valid"

\* C2: a privileged form accepted a domain ending in tjhsst.edu.
C2_Witness ==
    /\ form = "DomainForm" /\ FlagGiven(TRUE) /\ state = "valid"
    /\ EndsWith(cleaned_data.domain, TjhsstSuffix)

\* Every character of s is one the domain pattern allows.
DomainCharactersOnly(s) ==
    s # <<>> /\ \A i \in 1..Len(s) : s[i] \in DomainCharset

\* s is "sites.tjhsst.edu" or ends in ".sites.tjhsst.edu".
IsSitesDomain(s) == s = SitesDomain \/ EndsWith(s, <<".">> \o SitesDomain)

\* C3 as stated: for every user, a submitted domain that is
\* "sites.tjhsst.edu" or ends in ".sites.tjhsst.edu" is rejected by the
\* field's validator, and a submitted domain (of allowed characters) that
\* contains that text without ending in it is not rejected by it.
C3_AsStated ==
    (form = "DomainForm" /\ Cleaned) =>
        /\ IsSitesDomain(data.domain) => MsgSitesDomain \in errors.domain
        /\ (/\ DomainCharactersOnly(data.domain)
            /\ Contains(data.domain, SitesDomain)
            /\ ~EndsWith(data.domain, SitesDomain))
           => MsgSitesDomain \notin errors.domain

\* C3 amended: for every user, a submitted domain that is
\* "sites.tjhsst.edu" or ends in ".sites.tjhsst.edu" is rejected by the
\* field's validator, and a domain (of allowed characters) that, once its
\* leading and trailing whitespace is stripped, contains that text without
\* ending in it is not rejected by it.
C3_SitesDomainReserved ==
    (form = "DomainForm" /\ Cleaned) =>
        /\ IsSitesDomain(data.domain) => MsgSitesDomain \in errors.domain
        /\ (/\ DomainCharactersOnly(Strip(data.domain))
            /\ Contains(Strip(data.domain), SitesDomain)
            /\ ~EndsWith(Strip(data.domain), SitesDomain))
           => MsgSitesDomain \notin errors.domain

\* C3: a superuser's subdomain of sites.tjhsst.edu was rejected by the
\* field's validator alone.
C3_Witness ==
    /\ form = "DomainForm" /\ FlagGiven(TRUE) /\ state = "invalid"
    /\ EndsWith(data.domain, <<".">> \o SitesDomain)
    /\ Len(data.domain) > Len(SitesDomain) + 1
    /\ errors.domain = {MsgSitesDomain}

\* s is 2 to 32 characters of lowercase letters, digits and dashes, with no
\* dash first, last or next to another dash.
WellFormedName(s) ==
    /\ Len(s) >= 2
    /\ Len(s) <= 32
    /\ \A i \in 1..Len(s) : s[i] \in Lower \cup Digits \cup {"-"}
    /\ s[1] # "-"
    /\ s[Len(s)] # "-"
    /\ \A i \in 1..(Len(s) - 1) : ~(s[i] = "-" /\ s[i + 1] = "-")

C5_LeadingDigitRejected ==
    (/\ form = "SiteNamesForm" /\ Cleaned
     /\ data.name # <<>>
     /\ data.name[1] \in Digits)
    => state = "invalid"

\* Some token of the whitespace-split text s is longer than n: s holds
\* more than n characters in a row that are not whitespace.
HasTokenLongerThan(s, n) ==
    \E i \in 1..Len(s) :
        /\ i + n <= Len(s)
        /\ \A k \in i..(i + n) : s[k] \notin Whitespace

\* C6: ImageSelectForm.clean adds "One of your package names is too long"
\* to the packages field if and only if some token of the whitespace-split
\* packages text is longer than the maximum length of a package name.
C6_TooLongIffLongToken ==
    (form = "ImageSelectForm" /\ Cleaned) =>
        (MsgPackageTooLong \in errors.packages
            <=> HasTokenLongerThan(data.packages, max_package_name_length))

\* C7: SiteResourceLimitsForm accepts a cpus text if and only if it is
\* blank or a number v with 0 <= v <= 3.
C7_CpusAcceptedIffInRange ==
    (form = "SiteResourceLimitsForm" /\ Cleaned) =>
        LET v == ParseFloat(data.cpus)
        IN  errors.cpus = {} <=>
                \/ data.cpus = <<>>
                \/ /\ v.kind = "finite"
                   /\ ~(v.neg /\ v.num > 0)
                   /\ v.neg \/ v.num <= 3 * v.den

\* C7: a cpus text that denotes exactly 3, with a fractional part, was
\* accepted.
C7_Witness ==
    /\ form = "SiteResourceLimitsForm" /\ Cleaned
    /\ errors.cpus = {}
    /\ "cpus" \in DOMAIN cleaned_data
    /\ cleaned_data.cpus.kind = "finite"
    /\ cleaned_data.cpus.den > 1
    /\ cleaned_data.cpus.num = 3 * cleaned_data.cpus.den

MemSuffixes ==
    {<<"K", "i", "B">>, <<"M", "i", "B">>, <<"G", "i", "B">>,
     <<"K", "B">>, <<"M", "B">>, <<"G", "B">>}

\* s is one or more digits.
IsNumber(s) == s # <<>> /\ \A i \in 1..Len(s) : s[i] \in Digits

\* s is a number, then whitespace or nothing, then one of the suffixes.
IsNumberWithSuffix(s) ==
    \E j \in 1..Len(s), k \in 1..Len(s) :
        /\ j < k
        /\ IsNumber(SubSeq(s, 1, j))
        /\ \A i \in (j + 1)..(k - 1) : s[i] \in Whitespace
        /\ SubSeq(s, k, Len(s)) \in MemSuffixes

DomainErrorsFor(b, d) ==
    LET ferrs == DomainFieldErrors(d)
    IN  ferrs \cup DomainClean(b, IF ferrs = {} THEN [domain |-> Strip(d)] ELSE <<>>)

\* C9: a DomainForm built without the user_is_superuser argument is not
\* privileged: on every input it ends as a form built with
\* user_is_superuser=False does, and it rejects domains ending in
\* "tjhsst.edu".
C9_FlagFailsClosed ==
    (form = "DomainForm" /\ FlagOmitted) =>
        /\ user_is_superuser = FALSE
        /\ Cleaned =>
               /\ errors.domain = DomainErrorsFor(FALSE, data.domain)
               /\ state = (IF DomainErrorsFor(FALSE, data.domain) = {}
                           THEN "valid" ELSE "invalid")
               /\ EndsWith(data.domain, TjhsstSuffix) =>
                      (state = "invalid" /\ errors.domain # {})

\* C9: a form built without the argument refused a tjhsst.edu domain that
\* had passed the field's validators.
C9_Witness ==
    /\ form = "DomainForm" /\ FlagOmitted /\ state = "invalid"
    /\ EndsWith(data.domain, TjhsstSuffix)
    /\ errors.domain = {MsgAdminOnly}

\* C10: DomainForm.clean and ImageSelectForm.clean never raise: they
\* complete for every input, and when the field failed its own validation
\* they leave no error on it beyond the field's own.
C10_CleanNeverRaises ==
    /\ (form = "DomainForm" /\ Cleaned) =>
           /\ state # "raised"
           /\ DomainFieldErrors(data.domain) # {} =>
                  errors.domain = DomainFieldErrors(data.domain)
    /\ (form = "ImageSelectForm" /\ Cleaned) =>
           /\ state # "raised"
           /\ PackagesFieldErrors(data.packages) # {} =>
                  errors.packages = PackagesFieldErrors(data.packages)
====
